---- MODULE Spec2Model ----
(***************************************************************************)
(* Model of the subset_generator crate (src/src/lib.rs) and of its         *)
(* set-cover example (src/examples/setcover.rs).                           *)
(*                                                                         *)
(* Index convention: Rust index i (0-based) is TLA+ index i+1.  A          *)
(* reference &data[i] pushed into a result vector is modelled by the       *)
(* index i+1 itself; Deref gives the item it points to.                    *)
(***************************************************************************)
EXTENDS Integers, Sequences, FiniteSets, TLC

\* ----------------------------------------------------------------- bounds
\* Largest length of the source collection explored.
MaxN == 3
\* How many times a caller keeps calling next() after it has returned None.
MaxNones == 2
\* Absolute cap on the calls to next() of one session; it is never the
\* binding guard of the code as written (2^N + 1 + MaxNones <= CallCap).
CallCap == 2 ^ (MaxN + 1) + MaxNones

\* The item values the source collection is drawn from (T is opaque).
Items == {"a", "b"}
\* The generators and the sessions (iterators) a run may hold.
Gens == {1, 2}
Sessions == {1, 2}

\* usize::MAX of setcover.rs line 14.  Only compared with subset.len() <= 5,
\* so the largest integer of the model checker stands for it.
UsizeMax == 2147483647
\* setcover.rs line 5
universe == 5
\* subsetsum.rs line 5
target == 9
\* subsetsum.rs line 4 (the vector the example names set)
sum_set == <<3, 34, 4, 12, 5, 2>>
\* setcover.rs lines 6-12 (the element values are kept as written)
families == << <<4>>, <<0, 1, 2>>, <<1, 3>>, <<2, 4>>, <<0, 3, 4>> >>

VARIABLES
    data,           \* the caller's Vec<T> every generator borrows
    gen,            \* gen[g]: SubsetGenerator {with_emptyset} and whether it was moved
    kind,           \* kind[s]: "none", "iter" or "into_iter": how session s was obtained
    from,           \* from[s]: the generator session s was obtained from (0: none)
    set,            \* set[s]: SubsetIter.set, the BitVec
    with_emptyset,  \* with_emptyset[s]: SubsetIter.with_emptyset
    rets,           \* rets[s]: the values next() has returned to the caller, in order
    pc,             \* setcover main: position
    opt,            \* setcover main: opt
    subset,         \* setcover main: the subset of the current loop iteration
    result,         \* setcover main: the HashSet result
    fi,             \* setcover main: position of the loop over subset
    ei,             \* setcover main: position of the loop over *family
    fold_acc,       \* subsetsum main: the accumulator acc of fold
    sum,            \* subsetsum main: sum
    found           \* subsetsum main: found

libvars == <<data, gen, kind, from, set, with_emptyset, rets>>
ssvars == <<fold_acc, sum, found>>
exvars == <<pc, opt, subset, result, fi, ei, fold_acc, sum, found>>
vars == <<data, gen, kind, from, set, with_emptyset, rets, pc, opt, subset, result, fi, ei,
          fold_acc, sum, found>>

\* ------------------------------------------------------------ Option<Vec>
None == [tag |-> "None", val |-> <<>>]
Some(v) == [tag |-> "Some", val |-> v]

\* ------------------------------------------------------ SubsetGenerator
\* SubsetGenerator::new
new(with_empty) == [with_emptyset |-> with_empty, alive |-> TRUE]

\* BitVec::from_elem(len, false)
from_elem(len, b) == [i \in 1..len |-> b]

\* Variant of iter that starts every session with the one-shot flag set
iter_ignores_flag(g) == [set |-> from_elem(Len(data), FALSE), with_emptyset |-> TRUE]

\* SubsetGenerator::iter: the SubsetIter it builds
iter(g) == [set |-> from_elem(Len(data), FALSE), with_emptyset |-> gen[g].with_emptyset]

\* Variant of into_iter that does not carry the flag into the session
into_iter_drops_flag(g) == [set |-> from_elem(Len(data), FALSE), with_emptyset |-> FALSE]

\* SubsetGenerator::into_iter: the SubsetIter it builds
into_iter(g) == [set |-> from_elem(Len(data), FALSE), with_emptyset |-> gen[g].with_emptyset]

\* ----------------------------------------------------------- SubsetIter
\* next_set, first loop: all_set &= self.set[i] for i in 0..len
RECURSIVE all_set_loop(_, _, _)
all_set_loop(bits, i, acc) ==
    IF i > Len(bits) THEN acc
    ELSE all_set_loop(bits, i + 1, acc /\ bits[i])

\* next_set, second loop: clear the 1-bits up to the first 0-bit, set it, break
RECURSIVE incr_loop(_, _)
incr_loop(bits, i) ==
    IF i > Len(bits) THEN bits
    ELSE IF bits[i] THEN incr_loop([bits EXCEPT ![i] = FALSE], i + 1)
    ELSE [bits EXCEPT ![i] = TRUE]

\* Variant of the second loop that sets the first 0-bit but never clears a 1-bit
RECURSIVE incr_loop_no_clear(_, _)
incr_loop_no_clear(bits, i) ==
    IF i > Len(bits) THEN bits
    ELSE IF bits[i] THEN incr_loop_no_clear(bits, i + 1)
    ELSE [bits EXCEPT ![i] = TRUE]

\* Variant of next_set whose increment does not carry
next_set_no_clear(bits) ==
    IF all_set_loop(bits, 1, TRUE)
    THEN [ok |-> FALSE, set |-> bits]
    ELSE [ok |-> TRUE, set |-> incr_loop_no_clear(bits, 1)]

\* Variant of next_set that increments first and tests all-ones afterwards
next_set_check_after(bits) ==
    LET b == incr_loop(bits, 1)
    IN IF all_set_loop(b, 1, TRUE)
       THEN [ok |-> FALSE, set |-> b]
       ELSE [ok |-> TRUE, set |-> b]

\* Variant of next_set whose all-ones test needs at least one bit
next_set_nonempty_check(bits) ==
    IF Len(bits) > 0 /\ all_set_loop(bits, 1, TRUE)
    THEN [ok |-> FALSE, set |-> bits]
    ELSE [ok |-> TRUE, set |-> incr_loop(bits, 1)]

\* Variant of next_set without the all-ones test: the counter wraps
next_set_no_check(bits) == [ok |-> TRUE, set |-> incr_loop(bits, 1)]

\* Variant of the second loop that scans from the last bit down
RECURSIVE incr_loop_msb(_, _)
incr_loop_msb(bits, i) ==
    IF i < 1 THEN bits
    ELSE IF bits[i] THEN incr_loop_msb([bits EXCEPT ![i] = FALSE], i - 1)
    ELSE [bits EXCEPT ![i] = TRUE]

\* Variant of next_set that counts with the last bit least significant
next_set_msb_first(bits) ==
    IF all_set_loop(bits, 1, TRUE)
    THEN [ok |-> FALSE, set |-> bits]
    ELSE [ok |-> TRUE, set |-> incr_loop_msb(bits, Len(bits))]

\* Variant of next_set that runs the increment before it returns false
next_set_wrap_then_report(bits) ==
    IF all_set_loop(bits, 1, TRUE)
    THEN [ok |-> FALSE, set |-> incr_loop(bits, 1)]
    ELSE [ok |-> TRUE, set |-> incr_loop(bits, 1)]

\* Variant of next_set that reports exhaustion as soon as the last bit is set
next_set_top_bit_check(bits) ==
    IF Len(bits) = 0 \/ bits[Len(bits)]
    THEN [ok |-> FALSE, set |-> bits]
    ELSE [ok |-> TRUE, set |-> incr_loop(bits, 1)]

\* SubsetIter::next_set: the value returned and the BitVec left behind
next_set(bits) ==
    IF all_set_loop(bits, 1, TRUE)
    THEN [ok |-> FALSE, set |-> bits]
    ELSE [ok |-> TRUE, set |-> incr_loop(bits, 1)]

\* SubsetIter::next, the loop that builds result: push(&self.data[i]) if set[i]
RECURSIVE project_loop(_, _, _)
project_loop(bits, i, acc) ==
    IF i > Len(bits) THEN acc
    ELSE project_loop(bits, i + 1, IF bits[i] THEN Append(acc, i) ELSE acc)

\* Variant of next that clears the one-shot flag without returning vec![]
next_skip_empty(it) ==
    LET r == next_set(it.set)
    IN IF r.ok
       THEN [it |-> [set |-> r.set, with_emptyset |-> FALSE], ret |-> Some(project_loop(r.set, 1, <<>>))]
       ELSE [it |-> [set |-> r.set, with_emptyset |-> FALSE], ret |-> None]

\* Variant of next that builds the result from the BitVec as it was before
\* next_set
next_project_stale(it) ==
    IF it.with_emptyset
    THEN [it |-> [it EXCEPT !.with_emptyset = FALSE], ret |-> Some(<<>>)]
    ELSE LET r == next_set(it.set)
         IN IF r.ok
            THEN [it |-> [it EXCEPT !.set = r.set], ret |-> Some(project_loop(it.set, 1, <<>>))]
            ELSE [it |-> [it EXCEPT !.set = r.set], ret |-> None]

\* Variant of next whose empty-set return also spends a counter increment
next_empty_increments(it) ==
    LET r == next_set(it.set)
    IN IF it.with_emptyset
       THEN [it |-> [set |-> r.set, with_emptyset |-> FALSE], ret |-> Some(<<>>)]
       ELSE IF r.ok
            THEN [it |-> [it EXCEPT !.set = r.set], ret |-> Some(project_loop(r.set, 1, <<>>))]
            ELSE [it |-> [it EXCEPT !.set = r.set], ret |-> None]

\* SubsetIter::next on the iterator it: the iterator left behind and the
\* value returned
next(it) ==
    IF it.with_emptyset
    THEN [it |-> [it EXCEPT !.with_emptyset = FALSE], ret |-> Some(<<>>)]
    ELSE LET r == next_set(it.set)
         IN IF r.ok
            THEN [it |-> [it EXCEPT !.set = r.set], ret |-> Some(project_loop(r.set, 1, <<>>))]
            ELSE [it |-> [it EXCEPT !.set = r.set], ret |-> None]

\* The item a reference of a result points to
Deref(ref) == data[ref]

\* ---------------------------------------------------------------- helpers
Range(s) == {s[i] : i \in 1..Len(s)}
IsSome(r) == r.tag = "Some"
\* The subsets session s has emitted so far, in order
emitted(s) == LET vals == SelectSeq(rets[s], IsSome) IN [k \in 1..Len(vals) |-> vals[k].val]
\* Number of calls of next() on session s, and how many returned None
calls(s) == Len(rets[s])
nones(s) == Len(rets[s]) - Len(emitted(s))
N == Len(data)
Created(s) == kind[s] # "none"
\* The flag session s was configured with (FALSE while s is not created)
includeEmpty(s) == Created(s) /\ gen[from[s]].with_emptyset
\* The value the latest call of next() on session s returned
LastRet(s) == rets[s][Len(rets[s])]
\* The index sets of a sequence of emitted subsets are pairwise distinct
PairwiseDistinct(e) == \A j, k \in 1..Len(e) : j # k => Range(e[j]) # Range(e[k])
\* A session that has reported None: its run up to there is a full session
Exhausted(s) == Created(s) /\ nones(s) >= 1

\* ------------------------------------------------------------------- Init
LibInit ==
    /\ data \in UNION {[1..n -> Items] : n \in 0..MaxN}
    /\ gen \in [Gens -> {new(b) : b \in BOOLEAN}]
    /\ kind = [s \in Sessions |-> "none"]
    /\ from = [s \in Sessions |-> 0]
    /\ set = [s \in Sessions |-> <<>>]
    /\ with_emptyset = [s \in Sessions |-> FALSE]
    /\ rets = [s \in Sessions |-> <<>>]

Init ==
    /\ LibInit
    /\ pc = "idle"
    /\ opt = 0
    /\ subset = <<>>
    /\ result = {}
    /\ fi = 0
    /\ ei = 0
    /\ fold_acc = 0
    /\ sum = 0
    /\ found = FALSE

\* ---------------------------------------------------------------- actions
\* let it = sg.iter(): a borrowing session; the generator stays usable
Iter(g, s) ==
    /\ pc = "idle"
    /\ gen[g].alive
    /\ kind[s] = "none"
    /\ kind' = [kind EXCEPT ![s] = "iter"]
    /\ from' = [from EXCEPT ![s] = g]
    /\ set' = [set EXCEPT ![s] = iter(g).set]
    /\ with_emptyset' = [with_emptyset EXCEPT ![s] = iter(g).with_emptyset]
    /\ UNCHANGED <<data, gen, rets, exvars>>

\* let it = sg.into_iter(): the generator is moved into the call; the
\* borrow checker rejects it while a session from sg.iter() borrows sg
IntoIter(g, s) ==
    /\ pc = "idle"
    /\ gen[g].alive
    /\ \A t \in Sessions : ~(kind[t] = "iter" /\ from[t] = g)
    /\ kind[s] = "none"
    /\ kind' = [kind EXCEPT ![s] = "into_iter"]
    /\ from' = [from EXCEPT ![s] = g]
    /\ set' = [set EXCEPT ![s] = into_iter(g).set]
    /\ with_emptyset' = [with_emptyset EXCEPT ![s] = into_iter(g).with_emptyset]
    /\ gen' = [gen EXCEPT ![g].alive = FALSE]
    /\ UNCHANGED <<data, rets, exvars>>

\* Variant of CallNext in which the sessions share one BitVec
CallNext_shared_set(s) ==
    /\ pc = "idle"
    /\ Created(s)
    /\ nones(s) < MaxNones
    /\ calls(s) < CallCap
    /\ LET r == next([set |-> set[s], with_emptyset |-> with_emptyset[s]])
       IN /\ set' = [t \in Sessions |-> IF Created(t) THEN r.it.set ELSE set[t]]
          /\ with_emptyset' = [with_emptyset EXCEPT ![s] = r.it.with_emptyset]
          /\ rets' = [rets EXCEPT ![s] = Append(@, r.ret)]
    /\ UNCHANGED <<data, gen, kind, from, exvars>>

\* Variant of CallNext in which the sessions share the one-shot flag
CallNext_shared_flag(s) ==
    /\ pc = "idle"
    /\ Created(s)
    /\ nones(s) < MaxNones
    /\ calls(s) < CallCap
    /\ LET r == next([set |-> set[s], with_emptyset |-> with_emptyset[s]])
       IN /\ set' = [set EXCEPT ![s] = r.it.set]
          /\ with_emptyset' = [t \in Sessions |->
                                  IF Created(t) THEN r.it.with_emptyset ELSE with_emptyset[t]]
          /\ rets' = [rets EXCEPT ![s] = Append(@, r.ret)]
    /\ UNCHANGED <<data, gen, kind, from, exvars>>

\* The items the references of a result point to, in order
Values(refs) == [k \in 1..Len(refs) |-> Deref(refs[k])]

\* next() repeated until its result is None or has items not in seen
RECURSIVE SkipSeen(_, _)
SkipSeen(it, seen) ==
    LET r == next(it)
    IN IF IsSome(r.ret) /\ Values(r.ret.val) \in seen THEN SkipSeen(r.it, seen) ELSE r

\* Variant of CallNext that skips a subset whose items equal, as values,
\* those of a subset already returned
CallNext_dedup(s) ==
    /\ pc = "idle"
    /\ Created(s)
    /\ nones(s) < MaxNones
    /\ calls(s) < CallCap
    /\ LET r == SkipSeen([set |-> set[s], with_emptyset |-> with_emptyset[s]],
                         {Values(emitted(s)[k]) : k \in 1..Len(emitted(s))})
       IN /\ set' = [set EXCEPT ![s] = r.it.set]
          /\ with_emptyset' = [with_emptyset EXCEPT ![s] = r.it.with_emptyset]
          /\ rets' = [rets EXCEPT ![s] = Append(@, r.ret)]
    /\ UNCHANGED <<data, gen, kind, from, exvars>>

\* Variant of CallNext in which clearing the one-shot flag of a session
\* clears the flag of its generator too
CallNext_clears_generator(s) ==
    /\ pc = "idle"
    /\ Created(s)
    /\ nones(s) < MaxNones
    /\ calls(s) < CallCap
    /\ LET r == next([set |-> set[s], with_emptyset |-> with_emptyset[s]])
       IN /\ set' = [set EXCEPT ![s] = r.it.set]
          /\ with_emptyset' = [with_emptyset EXCEPT ![s] = r.it.with_emptyset]
          /\ rets' = [rets EXCEPT ![s] = Append(@, r.ret)]
          /\ gen' = IF with_emptyset[s]
                    THEN [gen EXCEPT ![from[s]].with_emptyset = FALSE]
                    ELSE gen
    /\ UNCHANGED <<data, kind, from, exvars>>

\* it.next() on session s; the caller records the value returned
CallNext(s) ==
    /\ pc = "idle"
    /\ Created(s)
    /\ nones(s) < MaxNones
    /\ calls(s) < CallCap
    /\ LET r == next([set |-> set[s], with_emptyset |-> with_emptyset[s]])
       IN /\ set' = [set EXCEPT ![s] = r.it.set]
          /\ with_emptyset' = [with_emptyset EXCEPT ![s] = r.it.with_emptyset]
          /\ rets' = [rets EXCEPT ![s] = Append(@, r.ret)]
    /\ UNCHANGED <<data, gen, kind, from, exvars>>

Next ==
    \/ \E g \in Gens, s \in Sessions : Iter(g, s)
    \/ \E g \in Gens, s \in Sessions : IntoIter(g, s)
    \/ \E s \in Sessions : CallNext(s)

Spec == Init /\ [][Next]_vars

\* next() never reads an item (it only takes &self.data[i]), so the runs
\* that check progress draw the collection from a single item value.
FairInit == Init /\ Range(data) \subseteq {"a"}

\* A caller that keeps advancing: every enabled call of next() is eventually made
FairSpec == FairInit /\ [][Next]_vars /\ \A s \in Sessions : WF_vars(CallNext(s))

\* ------------------------------------------------- examples/setcover.rs
\* main, lines 5-16: universe, families, opt = usize::MAX and
\* sg = SubsetGenerator::new(&families, false)
SetCoverInit ==
    /\ data = families
    /\ gen = [g \in Gens |-> new(FALSE)]
    /\ kind = [s \in Sessions |-> "none"]
    /\ from = [s \in Sessions |-> 0]
    /\ set = [s \in Sessions |-> <<>>]
    /\ with_emptyset = [s \in Sessions |-> FALSE]
    /\ rets = [s \in Sessions |-> <<>>]
    /\ pc = "start"
    /\ opt = UsizeMax
    /\ subset = <<>>
    /\ result = {}
    /\ fi = 0
    /\ ei = 0
    /\ fold_acc = 0
    /\ sum = 0
    /\ found = FALSE

\* line 17, sg.iter(): the session the for loop runs over
SC_Iter ==
    /\ pc = "start"
    /\ kind' = [kind EXCEPT ![1] = "iter"]
    /\ from' = [from EXCEPT ![1] = 1]
    /\ set' = [set EXCEPT ![1] = iter(1).set]
    /\ with_emptyset' = [with_emptyset EXCEPT ![1] = iter(1).with_emptyset]
    /\ pc' = "for"
    /\ UNCHANGED <<data, gen, rets, opt, subset, result, fi, ei, ssvars>>

\* Variant of SC_For in which result is not a fresh HashSet per subset
SC_For_keeps_result ==
    /\ pc = "for"
    /\ LET r == next([set |-> set[1], with_emptyset |-> with_emptyset[1]])
       IN /\ set' = [set EXCEPT ![1] = r.it.set]
          /\ with_emptyset' = [with_emptyset EXCEPT ![1] = r.it.with_emptyset]
          /\ rets' = [rets EXCEPT ![1] = Append(@, r.ret)]
          /\ IF IsSome(r.ret)
             THEN /\ subset' = r.ret.val
                  /\ fi' = 1
                  /\ ei' = 1
                  /\ pc' = "union"
                  /\ UNCHANGED result
             ELSE /\ pc' = "print"
                  /\ UNCHANGED <<subset, result, fi, ei>>
    /\ UNCHANGED <<data, gen, kind, from, opt, ssvars>>

\* lines 17-20, one turn of "for subset in sg.iter()": next() on the
\* session; on Some(subset) a fresh result and the loop over subset starts,
\* on None the loop is left
SC_For ==
    /\ pc = "for"
    /\ LET r == next([set |-> set[1], with_emptyset |-> with_emptyset[1]])
       IN /\ set' = [set EXCEPT ![1] = r.it.set]
          /\ with_emptyset' = [with_emptyset EXCEPT ![1] = r.it.with_emptyset]
          /\ rets' = [rets EXCEPT ![1] = Append(@, r.ret)]
          /\ IF IsSome(r.ret)
             THEN /\ subset' = r.ret.val
                  /\ result' = {}
                  /\ fi' = 1
                  /\ ei' = 1
                  /\ pc' = "union"
             ELSE /\ pc' = "print"
                  /\ UNCHANGED <<subset, result, fi, ei>>
    /\ UNCHANGED <<data, gen, kind, from, opt, ssvars>>

\* lines 22-24: result.insert(*element) for the next element of *family
SC_Insert ==
    /\ pc = "union"
    /\ fi <= Len(subset)
    /\ ei <= Len(Deref(subset[fi]))
    /\ result' = result \cup {Deref(subset[fi])[ei]}
    /\ ei' = ei + 1
    /\ UNCHANGED <<libvars, pc, opt, subset, fi, ssvars>>

\* lines 21-22: *family is used up, on to the next family of subset
SC_NextFamily ==
    /\ pc = "union"
    /\ fi <= Len(subset)
    /\ ei > Len(Deref(subset[fi]))
    /\ fi' = fi + 1
    /\ ei' = 1
    /\ UNCHANGED <<libvars, pc, opt, subset, result, ssvars>>

\* line 21: subset is used up
SC_UnionDone ==
    /\ pc = "union"
    /\ fi > Len(subset)
    /\ pc' = "check"
    /\ UNCHANGED <<libvars, opt, subset, result, fi, ei, ssvars>>

\* lines 28-30: a cover that is no larger than opt becomes opt
SC_Check ==
    /\ pc = "check"
    /\ opt' = IF Cardinality(result) = universe /\ Len(subset) <= opt
              THEN Len(subset) ELSE opt
    /\ pc' = "for"
    /\ UNCHANGED <<libvars, subset, result, fi, ei, ssvars>>

\* line 32: println!("{:}", opt)
SC_Print ==
    /\ pc = "print"
    /\ pc' = "done"
    /\ UNCHANGED <<libvars, opt, subset, result, fi, ei, ssvars>>

SetCoverNext ==
    \/ SC_Iter
    \/ SC_For
    \/ SC_Insert
    \/ SC_NextFamily
    \/ SC_UnionDone
    \/ SC_Check
    \/ SC_Print

SetCoverSpec == SetCoverInit /\ [][SetCoverNext]_vars

\* ------------------------------------------------ examples/subsetsum.rs
\* main, lines 4-8: set, target, sg = SubsetGenerator::new(&set, false) and
\* found = false
SubsetSumInit ==
    /\ data = sum_set
    /\ gen = [g \in Gens |-> new(FALSE)]
    /\ kind = [s \in Sessions |-> "none"]
    /\ from = [s \in Sessions |-> 0]
    /\ set = [s \in Sessions |-> <<>>]
    /\ with_emptyset = [s \in Sessions |-> FALSE]
    /\ rets = [s \in Sessions |-> <<>>]
    /\ pc = "start"
    /\ opt = 0
    /\ subset = <<>>
    /\ result = {}
    /\ fi = 0
    /\ ei = 0
    /\ fold_acc = 0
    /\ sum = 0
    /\ found = FALSE

\* line 9, sg.into_iter(): the session the for loop runs over; sg is moved
SS_IntoIter ==
    /\ pc = "start"
    /\ gen[1].alive
    /\ kind' = [kind EXCEPT ![1] = "into_iter"]
    /\ from' = [from EXCEPT ![1] = 1]
    /\ set' = [set EXCEPT ![1] = into_iter(1).set]
    /\ with_emptyset' = [with_emptyset EXCEPT ![1] = into_iter(1).with_emptyset]
    /\ gen' = [gen EXCEPT ![1].alive = FALSE]
    /\ pc' = "for"
    /\ UNCHANGED <<data, rets, opt, subset, result, fi, ei, ssvars>>

\* line 9, one turn of "for subset in sg.into_iter()": next() on the
\* session; None leaves the loop
SS_For ==
    /\ pc = "for"
    /\ LET r == next([set |-> set[1], with_emptyset |-> with_emptyset[1]])
       IN /\ set' = [set EXCEPT ![1] = r.it.set]
          /\ with_emptyset' = [with_emptyset EXCEPT ![1] = r.it.with_emptyset]
          /\ rets' = [rets EXCEPT ![1] = Append(@, r.ret)]
          /\ IF IsSome(r.ret)
             THEN /\ subset' = r.ret.val
                  /\ pc' = "fold"
             ELSE /\ pc' = "print"
                  /\ UNCHANGED subset
    /\ UNCHANGED <<data, gen, kind, from, opt, result, fi, ei, ssvars>>

\* line 10: subset.into_iter().fold(0, ...) starts with the accumulator 0
SS_FoldStart ==
    /\ pc = "fold"
    /\ fold_acc' = 0
    /\ fi' = 1
    /\ pc' = "folding"
    /\ UNCHANGED <<libvars, opt, subset, result, ei, sum, found>>

\* line 10: the closure |acc, i| acc + *i on the next reference of subset
SS_FoldStep ==
    /\ pc = "folding"
    /\ fi <= Len(subset)
    /\ fold_acc' = fold_acc + Deref(subset[fi])
    /\ fi' = fi + 1
    /\ UNCHANGED <<libvars, pc, opt, subset, result, ei, sum, found>>

\* line 10: subset is used up, let sum = the accumulator
SS_FoldEnd ==
    /\ pc = "folding"
    /\ fi > Len(subset)
    /\ sum' = fold_acc
    /\ pc' = "test"
    /\ UNCHANGED <<libvars, opt, subset, result, fi, ei, fold_acc, found>>

\* Variant of SS_Test that sets found but does not leave the loop
SS_Test_no_break ==
    /\ pc = "test"
    /\ found' = (found \/ sum = target)
    /\ pc' = "for"
    /\ UNCHANGED <<libvars, opt, subset, result, fi, ei, fold_acc, sum>>

\* lines 11-14: if sum == target { found = true; break }
SS_Test ==
    /\ pc = "test"
    /\ IF sum = target
       THEN /\ found' = TRUE
            /\ pc' = "print"
       ELSE /\ pc' = "for"
            /\ UNCHANGED found
    /\ UNCHANGED <<libvars, opt, subset, result, fi, ei, fold_acc, sum>>

\* line 17: println!("{:}", found)
SS_Print ==
    /\ pc = "print"
    /\ pc' = "done"
    /\ UNCHANGED <<libvars, opt, subset, result, fi, ei, ssvars>>

SubsetSumNext ==
    \/ SS_IntoIter
    \/ SS_For
    \/ SS_FoldStart
    \/ SS_FoldStep
    \/ SS_FoldEnd
    \/ SS_Test
    \/ SS_Print

SubsetSumSpec == SubsetSumInit /\ [][SubsetSumNext]_vars

\* ================================================================= claims

\* C1: a session with includeEmpty = false that has been advanced until it
\* reported None has emitted exactly 2^N - 1 subsets, pairwise distinct as
\* index sets, none empty, and they are exactly the non-empty subsets of the
\* source indices.
C1_FullSessionWithoutEmpty ==
    \A s \in Sessions :
        (Exhausted(s) /\ ~includeEmpty(s)) =>
            LET e == emitted(s)
            IN /\ Len(e) = 2 ^ N - 1
               /\ PairwiseDistinct(e)
               /\ \A k \in 1..Len(e) : Range(e[k]) # {}
               /\ {Range(e[k]) : k \in 1..Len(e)} = (SUBSET (1..N)) \ {{}}

C1_Witness ==
    \E s \in Sessions : Exhausted(s) /\ ~includeEmpty(s) /\ N >= 3

\* C2: a session with includeEmpty = true that has been advanced until it
\* reported None has emitted exactly 2^N subsets, pairwise distinct as index
\* sets, covering the power set of the source indices, the empty subset
\* exactly once.
C2_FullSessionWithEmpty ==
    \A s \in Sessions :
        (Exhausted(s) /\ includeEmpty(s)) =>
            LET e == emitted(s)
            IN /\ Len(e) = 2 ^ N
               /\ PairwiseDistinct(e)
               /\ {Range(e[k]) : k \in 1..Len(e)} = SUBSET (1..N)
               /\ Cardinality({k \in 1..Len(e) : e[k] = <<>>}) = 1

C2_Witness ==
    \E s \in Sessions : Exhausted(s) /\ includeEmpty(s) /\ N >= 3

\* C3: once a call of next() on a session has returned None, every later
\* call of next() on that session returns None too.
C3_IdempotentExhaustion ==
    [][\A s \in Sessions :
          (nones(s) >= 1 /\ Len(rets'[s]) > Len(rets[s])) =>
              rets'[s][Len(rets'[s])] = None]_vars

C3_Witness ==
    /\ N >= 1
    /\ \E s \in Sessions : includeEmpty(s) /\ nones(s) >= 2
    /\ \E s \in Sessions : Created(s) /\ ~includeEmpty(s) /\ nones(s) >= 2

\* C4: over an empty collection a session with includeEmpty = false returns
\* None from its first call on, a session with includeEmpty = true returns
\* the empty subset from its first call and None from the second on, and
\* next_set reports the zero-bit counter as exhausted.
C4_EmptyCollection ==
    N = 0 =>
        \A s \in Sessions :
            Created(s) =>
                /\ ~next_set(set[s]).ok
                /\ \A k \in 1..calls(s) :
                       rets[s][k] = IF includeEmpty(s) /\ k = 1 THEN Some(<<>>) ELSE None

C4_Witness ==
    /\ N = 0
    /\ \E s \in Sessions : includeEmpty(s) /\ calls(s) >= 2
    /\ \E s \in Sessions : Created(s) /\ ~includeEmpty(s) /\ calls(s) >= 1

\* C5: a subset returned by next() is the projection of the counter as it is
\* after the call: index i is in it exactly when bit i is set, each index
\* once, in strictly ascending index order (the empty subset returned for
\* the one-shot flag is the projection of the all-zero counter).
C5_EmittedIsProjection ==
    \A s \in Sessions :
        (calls(s) >= 1 /\ IsSome(LastRet(s))) =>
            LET v == LastRet(s).val
            IN /\ \A i \in 1..N : (i \in Range(v)) <=> set[s][i]
               /\ Range(v) \subseteq 1..N
               /\ \A j, k \in 1..Len(v) : j < k => v[j] < v[k]

C5_Witness ==
    \E s \in Sessions :
        /\ calls(s) >= 1
        /\ LastRet(s) = Some(<<1, 3>>)
        /\ set[s] = <<TRUE, FALSE, TRUE>>

\* C6: next() returns the empty subset exactly on the first call of a
\* session configured with includeEmpty = true; the one-shot flag is clear
\* after any call and never set again, that first call leaves the counter
\* all-zero, and the second call returns what the first call of a session
\* configured with includeEmpty = false returns.
C6_EmptyOnlyFirst ==
    \A s \in Sessions :
        Created(s) =>
            /\ \A k \in 1..calls(s) :
                   (rets[s][k] = Some(<<>>)) <=> (includeEmpty(s) /\ k = 1)
            /\ with_emptyset[s] = (includeEmpty(s) /\ calls(s) = 0)
            /\ (includeEmpty(s) /\ calls(s) = 1) => set[s] = from_elem(N, FALSE)
            /\ \A t \in Sessions :
                   (/\ includeEmpty(s) /\ calls(s) >= 2
                    /\ Created(t) /\ ~includeEmpty(t) /\ calls(t) >= 1)
                   => rets[s][2] = rets[t][1]

C6_Witness ==
    \E s, t \in Sessions :
        /\ N >= 1
        /\ includeEmpty(s) /\ calls(s) >= 2
        /\ Created(t) /\ ~includeEmpty(t) /\ calls(t) >= 1

\* The values k calls of next() return on a session advanced alone from it
RECURSIVE Solo(_, _)
Solo(it, k) ==
    IF k = 0 THEN <<>>
    ELSE LET r == next(it) IN <<r.ret>> \o Solo(r.it, k - 1)

\* C7: under any interleaving of the calls on two sessions over the same
\* collection, a call of next() on one session changes neither the counter,
\* the one-shot flag nor the results of the other, and the values each
\* session has returned are those it returns when advanced alone.
C7_SessionsIndependent ==
    /\ [](\A s \in Sessions :
            Created(s) =>
                rets[s] = Solo([set |-> from_elem(N, FALSE),
                                with_emptyset |-> includeEmpty(s)], calls(s)))
    /\ [][\A s, t \in Sessions :
              (s # t /\ Len(rets'[s]) > Len(rets[s])) =>
                  /\ set'[t] = set[t]
                  /\ with_emptyset'[t] = with_emptyset[t]
                  /\ rets'[t] = rets[t]]_vars

C7_Witness ==
    /\ N >= 2
    /\ includeEmpty(1) # includeEmpty(2)
    /\ calls(1) >= 2 /\ calls(2) >= 2 /\ calls(1) # calls(2)
    /\ nones(1) = 0 /\ nones(2) = 0

\* C8: a session from iter and a session from into_iter over the same
\* collection and flag are in the same cursor state and have returned the
\* same values whenever they have been advanced the same number of times
\* (none included), None at the same step.
C8_IterEqualsIntoIter ==
    \A s, t \in Sessions :
        (/\ kind[s] = "iter" /\ kind[t] = "into_iter"
         /\ includeEmpty(s) = includeEmpty(t)
         /\ calls(s) = calls(t))
        => /\ set[s] = set[t]
           /\ with_emptyset[s] = with_emptyset[t]
           /\ rets[s] = rets[t]

C8_Witness ==
    \E s, t \in Sessions :
        /\ kind[s] = "iter" /\ kind[t] = "into_iter"
        /\ includeEmpty(s) /\ includeEmpty(t)
        /\ calls(s) = calls(t) /\ nones(s) >= 1 /\ N >= 2

\* The call of next() on which session s first returns None
FirstNoneCall(s) == 2 ^ N + (IF includeEmpty(s) THEN 1 ELSE 0)

\* C9: a caller that keeps calling next() gets None after finitely many
\* calls, and the calls that return None are exactly those numbered
\* 2^N + 1 and later with includeEmpty = true, 2^N and later with false.
\* (A session stays created and a returned None stays recorded, so
\* "eventually always (created => has returned None)" is "created leads to
\* has returned None".)
C9_Terminates ==
    /\ \A s \in Sessions : <>[](Created(s) => nones(s) >= 1)
    /\ [](\A s \in Sessions :
            Created(s) =>
                \A k \in 1..calls(s) : (rets[s][k] = None) <=> (k >= FirstNoneCall(s)))

C9_Witness ==
    \E s, t \in Sessions :
        /\ N >= 3
        /\ includeEmpty(s) /\ calls(s) = 2 ^ N + 1 /\ nones(s) = 1
        /\ Created(t) /\ ~includeEmpty(t) /\ calls(t) = 2 ^ N /\ nones(t) = 1

\* The index sets of families whose union has all the elements of the universe
Covers == {S \in SUBSET (1..Len(families)) :
              Cardinality(UNION {Range(families[i]) : i \in S}) = universe}

\* C10: the set-cover example ends with opt = 2, which is the smallest size
\* of a set of families covering the universe (a value that does not depend
\* on the order in which the subsets are scanned), after every non-empty
\* subset of the 5 families has been scanned.
C10_SetCoverOptimum ==
    pc = "done" =>
        /\ opt = 2
        /\ \E S \in Covers : Cardinality(S) = opt
        /\ \A S \in Covers : Cardinality(S) >= opt
        /\ {Range(emitted(1)[k]) : k \in 1..Len(emitted(1))} = (SUBSET (1..Len(families))) \ {{}}

C10_Witness ==
    pc = "done" /\ nones(1) = 1 /\ calls(1) = 32 /\ opt < UsizeMax

\* The sum of the items the references of a subset point to
RECURSIVE SumOf(_)
SumOf(refs) == IF refs = <<>> THEN 0 ELSE Deref(Head(refs)) + SumOf(Tail(refs))

\* C11: the subset-sum example ends with found = true, on a subset whose
\* items sum to 9 and which is the first such subset emitted, and the
\* session has not returned None by then.
C11_SubsetSumFound ==
    pc = "done" =>
        /\ found
        /\ nones(1) = 0
        /\ SumOf(LastRet(1).val) = target
        /\ \A k \in 1..(calls(1) - 1) : SumOf(rets[1][k].val) # target

C11_Witness ==
    pc = "done" /\ found /\ calls(1) = 20 /\ subset = <<3, 5>>

\* The counter read as an unsigned binary number, bit 1 (source index 0)
\* least significant
RECURSIVE ValueFrom(_, _)
ValueFrom(bits, i) ==
    IF i > Len(bits) THEN 0
    ELSE (IF bits[i] THEN 2 ^ (i - 1) ELSE 0) + ValueFrom(bits, i + 1)
Value(bits) == ValueFrom(bits, 1)
\* Bit i (1-based) of the number k
BitOf(k, i) == (k \div (2 ^ (i - 1))) % 2
NonEmpty(e) == e # <<>>
\* The non-empty subsets session s has emitted so far, in order
nonEmptyEmitted(s) == SelectSeq(emitted(s), NonEmpty)
AllOnes(bits) == \A i \in 1..Len(bits) : bits[i]

\* C13: the counter's value is the number of non-empty subsets the session
\* has emitted, and the k-th of them is the set of indices i for which bit
\* i of k is 1, bit 1 (source index 0) least significant; so each call that
\* emits a non-empty subset adds exactly one to the counter and the first
\* one is the subset of source index 0 alone.
C13_BinaryCounterOrder ==
    \A s \in Sessions :
        Created(s) =>
            LET ne == nonEmptyEmitted(s)
            IN /\ Value(set[s]) = Len(ne)
               /\ \A k \in 1..Len(ne) :
                      /\ Range(ne[k]) = {i \in 1..N : BitOf(k, i) = 1}
                      /\ k = 1 => ne[k] = <<1>>

C13_Witness ==
    \E s \in Sessions :
        /\ N >= 3
        /\ Len(nonEmptyEmitted(s)) = 6
        /\ LastRet(s) = Some(<<2, 3>>)

\* C14: a call of next() on a session whose counter is all-ones and whose
\* one-shot flag is clear returns None and leaves the counter as it is; the
\* counter of a session never changes once it is all-ones, and the empty
\* subset is never returned after a non-empty one.
C14_NoWrap ==
    /\ [][\A s \in Sessions :
              (Created(s) /\ AllOnes(set[s])) =>
                  /\ set'[s] = set[s]
                  /\ (Len(rets'[s]) > Len(rets[s]) /\ ~with_emptyset[s])
                        => rets'[s][Len(rets'[s])] = None]_vars
    /\ [](\A s \in Sessions :
            \A j, k \in 1..calls(s) :
                (j < k /\ IsSome(rets[s][j]) /\ rets[s][j].val # <<>>)
                    => rets[s][k] # Some(<<>>))

C14_Witness ==
    \E s \in Sessions :
        /\ N >= 2
        /\ includeEmpty(s)
        /\ AllOnes(set[s])
        /\ nones(s) >= 2

\* Session s is advanced by this step
Advanced(s) == Len(rets'[s]) > Len(rets[s])
\* A fresh session: all bits false, the flag as configured
StartsFresh ==
    \A s \in Sessions :
        (Created(s) /\ calls(s) = 0) =>
            /\ set[s] = from_elem(N, FALSE)
            /\ with_emptyset[s] = includeEmpty(s)
\* This step changes exactly one of the counter and the one-shot flag of s
MutatedOnce(s) == (set'[s] # set[s]) # (with_emptyset'[s] # with_emptyset[s])
CursorUnchanged(s) == set'[s] = set[s] /\ with_emptyset'[s] = with_emptyset[s]

\* C15 as stated: a session starts with all bits false and the flag as
\* configured, and every call of next(), in every state of the session,
\* mutates the cursor state exactly once.
C15_MutatedOnEveryCall ==
    /\ []StartsFresh
    /\ [][\A s \in Sessions : Advanced(s) => MutatedOnce(s)]_vars

\* C15 as amended: a session starts with all bits false and the flag as
\* configured; a call of next() that returns a subset mutates the cursor
\* state exactly once (it clears the flag or it increments the counter), a
\* call that returns None leaves the cursor state unchanged, and nothing but
\* a call of next() on the session changes its cursor state.
C15_MutatedOncePerEmission ==
    /\ []StartsFresh
    /\ [][\A s \in Sessions :
              Created(s) =>
                  IF Advanced(s) /\ IsSome(rets'[s][Len(rets'[s])])
                  THEN MutatedOnce(s)
                  ELSE CursorUnchanged(s)]_vars

C15_Witness ==
    \E s, t \in Sessions :
        /\ N >= 2
        /\ includeEmpty(s) /\ nones(s) >= 2
        /\ kind[t] = "iter" /\ ~includeEmpty(t) /\ calls(t) >= 2

\* C16: the counter of a session has exactly N bits and a value of at most
\* 2^N - 1; next() has returned None only with the counter all-ones, by
\* which time every non-empty subset has been emitted, and for N >= 1 the
\* last subset emitted before None is the whole collection.
C16_AllOnesIsTerminal ==
    \A s \in Sessions :
        Created(s) =>
            /\ Len(set[s]) = N
            /\ Value(set[s]) <= 2 ^ N - 1
            /\ (calls(s) >= 1 /\ LastRet(s) = None) => AllOnes(set[s])
            /\ Exhausted(s) =>
                   LET e == emitted(s)
                   IN /\ \A S \in (SUBSET (1..N)) \ {{}} :
                             \E k \in 1..Len(e) : Range(e[k]) = S
                      /\ N >= 1 => e[Len(e)] = [i \in 1..N |-> i]

C16_Witness ==
    \E s \in Sessions :
        /\ N >= 3
        /\ ~includeEmpty(s)
        /\ nones(s) = 1
        /\ LastRet(s) = None
        /\ Value(set[s]) = 2 ^ N - 1

\* C17: two sessions over the same collection created with the same flag
\* (from either generator, by iter or into_iter) have returned the same
\* value at every step both have reached.
C17_Deterministic ==
    \A s, t \in Sessions :
        (Created(s) /\ Created(t) /\ includeEmpty(s) = includeEmpty(t)) =>
            \A k \in 1..calls(s) : k <= calls(t) => rets[s][k] = rets[t][k]

C17_Witness ==
    /\ N >= 2
    /\ from[1] # from[2]
    /\ kind[1] = "iter" /\ kind[2] = "iter"
    /\ includeEmpty(1) /\ includeEmpty(2)
    /\ calls(1) >= 3 /\ calls(2) > calls(1)

\* The elements of a set of indices in ascending order
RECURSIVE Ascending(_)
Ascending(S) ==
    IF S = {} THEN <<>>
    ELSE LET m == CHOOSE x \in S : \A y \in S : x <= y
         IN <<m>> \o Ascending(S \ {m})
\* The value of the k-th call of next(), from the length n of the collection
\* and the flag alone
ExpectedRet(n, flag, k) ==
    LET j == IF flag THEN k - 1 ELSE k
    IN IF j > 2 ^ n - 1 THEN None
       ELSE Some(Ascending({i \in 1..n : BitOf(j, i) = 1}))
HasEqualItems == \E i, j \in 1..N : i # j /\ data[i] = data[j]

\* C18: what a session returns at each call, as a sequence of indices, is
\* determined by N and includeEmpty whatever the items are; a full session
\* has 2^N results (2^N - 1 without the empty subset) also when items are
\* equal, and then two of its results, different as index sets, are equal as
\* sequences of item values.
C18_NoDeduplication ==
    \A s \in Sessions :
        Created(s) =>
            /\ \A k \in 1..calls(s) : rets[s][k] = ExpectedRet(N, includeEmpty(s), k)
            /\ Exhausted(s) =>
                   LET e == emitted(s)
                   IN /\ Len(e) = 2 ^ N - (IF includeEmpty(s) THEN 0 ELSE 1)
                      /\ HasEqualItems =>
                             \E j, k \in 1..Len(e) :
                                 /\ Range(e[j]) # Range(e[k])
                                 /\ [i \in 1..Len(e[j]) |-> Deref(e[j][i])]
                                      = [i \in 1..Len(e[k]) |-> Deref(e[k][i])]

C18_Witness ==
    \E s \in Sessions :
        /\ data = <<"a", "b", "a">>
        /\ Exhausted(s)
        /\ Len(emitted(s)) = 7

\* C19: no step changes the collection or the flag of a generator, and a
\* generator stops being usable only by into_iter; a session obtained by
\* iter starts with all bits false and the flag of its generator, whatever
\* other sessions of that generator have done, and when that flag is set the
\* first call of next() on it returns the empty subset.
C19_GeneratorUnchanged ==
    /\ [][/\ data' = data
          /\ \A g \in Gens :
                 /\ gen'[g].with_emptyset = gen[g].with_emptyset
                 /\ gen'[g].alive # gen[g].alive =>
                        \E s \in Sessions :
                            kind[s] = "none" /\ kind'[s] = "into_iter" /\ from'[s] = g
          /\ \A s \in Sessions :
                 (kind[s] = "none" /\ kind'[s] = "iter") =>
                     /\ set'[s] = from_elem(N, FALSE)
                     /\ with_emptyset'[s] = gen[from'[s]].with_emptyset
                     /\ gen'[from'[s]] = gen[from'[s]]]_vars
    /\ [](\A s \in Sessions :
            (kind[s] = "iter" /\ calls(s) >= 1 /\ gen[from[s]].with_emptyset) =>
                rets[s][1] = Some(<<>>))

C19_Witness ==
    \E s, t \in Sessions :
        /\ N >= 2
        /\ s # t
        /\ kind[s] = "iter" /\ kind[t] = "iter" /\ from[s] = from[t]
        /\ gen[from[s]].with_emptyset /\ gen[from[s]].alive
        /\ nones(s) >= 1
        /\ calls(t) = 1 /\ rets[t][1] = Some(<<>>)

====
